---- MODULE Spec2Model ----
(***************************************************************************)
(* Model of datasets/utils/glviewer.py: the `command` registry, the four   *)
(* default handlers and the key-press dispatch of glumpy_viewer.           *)
(*                                                                         *)
(* A command table (a Python dict from one-character strings to handler    *)
(* functions) is a TLA+ function whose DOMAIN is the set of bound keys.    *)
(* A handler function is named by a string; Call applies it.               *)
(* The local name `commands` of glumpy_viewer is a reference: it is either *)
(* the module-level dict _commands itself or the dict the caller passed.   *)
(*                                                                         *)
(* Model of BuildOnInit in datasets/toy.py: the attributes meta, descr and *)
(* meta_const of the dataset classes and of their instances. An object is  *)
(* named by the call of build_all that made it and the attribute it was    *)
(* made for, so two objects are the very same object iff their names are   *)
(* equal.                                                                  *)
(***************************************************************************)
EXTENDS Integers, Sequences, FiniteSets, TLC

\* ------------------------------------------------------------------ bounds
MaxLen == 3          \* longest frame source (len(img_array)) explored in Spec
MaxLenDefault == 5   \* longest frame source explored in SpecDefault
MaxRegs == 2         \* registrations made after the module was imported
MaxPresses == 6      \* longest run of advance/rewind key-presses counted
MaxObjs == 3         \* dataset objects constructed

\* --------------------------------------------------------------- variables
VARIABLES
    _commands,       \* module-level dict (glviewer.py:37)
    commands,        \* what the session's local name `commands` refers to
    state,           \* the state dict of the session (glviewer.py:91-96)
    loop,            \* "NotStarted" | "Running" | "Terminated" | "Aborted"
    painted,         \* what the last on_draw blitted to the window
    lastSym,         \* symbol of the last key-press (NoSym before the first)
    invoked,         \* handler called by the last key-press ("none" if none)
    drew,            \* TRUE iff the last key-press called window.draw()
    raised,          \* exception that left the last key-press ("none" if none)
    printed,         \* what the last key-press printed
    lastReg,         \* arguments of the last call command(char)(f), and
                     \* whether it returned (ok) or raised AssertionError
    clobbered,       \* binding the last successful registration replaced
    nregs,           \* number of registrations made after import
    img_array,       \* the frame source of the session, frame i named i
    atStart,         \* contents of _commands when the session started
    regsAtStart,     \* value of nregs when the session started
    commandsArg,     \* the `commands` argument glumpy_viewer was called with
    arrays_to_print, \* the `arrays_to_print` argument of glumpy_viewer
    shown,           \* the values of arrays_to_print the last key-press printed
    scenario,        \* how many keys of Scenario the key-presses of the
                     \* session have followed so far (OffScenario once one
                     \* key-press departed from it)
    classAttrs,      \* meta, descr, meta_const set on each dataset class
    instances,       \* the dataset objects constructed so far, in order:
                     \* the class of each and the attributes set on it
    builds,          \* number of calls of build_all so far
    lastOp,          \* the last operation on a dataset: what it was, on
                     \* which class and how often it called build_all
    memoBy,          \* per class, the instance memoize() was last called on
                     \* (0 if it never was)
    memoizedOn       \* the instances memoize() was ever called on

vars == <<_commands, commands, state, loop, painted, lastSym, invoked,
          drew, raised, printed, lastReg, clobbered, nregs, img_array,
          atStart, regsAtStart, commandsArg, arrays_to_print, shown, scenario,
          classAttrs, instances, builds, lastOp, memoBy, memoizedOn>>

toyVars == <<classAttrs, instances, builds, lastOp, memoBy, memoizedOn>>
viewerVars == <<_commands, commands, state, loop, painted, lastSym, invoked,
                drew, raised, printed, lastReg, clobbered, nregs, img_array,
                atStart, regsAtStart, commandsArg, arrays_to_print, shown,
                scenario>>

keyVars == <<lastSym, invoked, drew, printed, raised, shown, scenario>>
sessionVars == <<commands, state, loop, painted, img_array, atStart, regsAtStart,
                 commandsArg, arrays_to_print>>
regVars == <<_commands, lastReg, clobbered, nregs>>

\* ------------------------------------------------------- python primitives
\* A Python value passed as `char`: its type and, for strings, its characters.
Str(cs) == [type |-> "str", chars |-> cs]
Unicode(cs) == [type |-> "unicode", chars |-> cs]
IntVal == [type |-> "int", chars |-> <<>>]

\* the key symbols the host window delivers: ASCII codes and one special key
SymJ == 106
SymK == 107
Sym0 == 48
SymQ == 113
SymR == 114
SymNewline == 10
SymLeft == 65361
NoSym == 0 - 1

\* the key-presses of the walk-through: three advances, two more, a rewind,
\* a reset, quit
Scenario == <<SymJ, SymJ, SymJ, SymJ, SymJ, SymK, Sym0, SymQ>>
OffScenario == 0 - 1
Follow(n, symbol) ==
    IF n # OffScenario /\ n < Len(Scenario) /\ Scenario[n + 1] = symbol
    THEN n + 1 ELSE OffScenario
KeySymbols == {SymJ, SymK, Sym0, SymQ, SymR, SymNewline, SymLeft}

\* Python 2 chr(): defined on range(256) only, ValueError elsewhere
InChrRange(symbol) == symbol \in 0..255

chr(symbol) ==
    CASE symbol = SymJ -> "j"
      [] symbol = SymK -> "k"
      [] symbol = Sym0 -> "0"
      [] symbol = SymQ -> "q"
      [] symbol = SymR -> "r"
      [] symbol = SymNewline -> "\n"

IsPrintable(c) == c # "\n"

\* a frame source of n frames, frame i (0-based) named i
Frames(n) == [i \in 1..n |-> i - 1]

\* arr[i] on a Python sequence: negative indices count from the end,
\* anything outside -len..len-1 is an IndexError
InIndexRange(arr, i) == (0 - Len(arr)) <= i /\ i < Len(arr)
getitem(arr, i) == IF i >= 0 THEN arr[i + 1] ELSE arr[Len(arr) + i + 1]

\* glumpy.Image(frame, cmap=cmap)
Image(frame) == [data |-> frame]
Blank == [data |-> 0 - 1]
\* glumpy.Window(*window_shape)
Window == 1

\* ---------------------------------------------------------------- registry
EmptyDict == [c \in {} |-> "none"]

\* d[k] = v on a dict
SetItem(d, k, v) == [c \in (DOMAIN d) \cup {k} |-> IF c = k THEN v ELSE d[c]]

\* an assert that checks the length only
ValidChar_any_type(char) == Len(char.chars) = 1

\* the assert of deco (glviewer.py:43)
ValidChar(char) == char.type = "str" /\ Len(char.chars) = 1

\* a registry in which the first registration of a key wins
command_keep_first(d, char, f) ==
    IF char.chars[1] \in DOMAIN d THEN d ELSE SetItem(d, char.chars[1], f)

\* _commands[char] = f (glviewer.py:44), for a char that passed the assert
command(d, char, f) == SetItem(d, char.chars[1], f)

\* ---------------------------------------------------------------- handlers
\* A handler takes the state dict; the result is the dict after the call and
\* the exception the call raised.
Ret(st) == [st |-> st, exc |-> "none"]

\* advance that stops at the last frame instead of wrapping
inc_pos_clamped(st) ==
    Ret([st EXCEPT !.pos = IF st.pos + 1 < st.len THEN st.pos + 1 ELSE st.pos])

inc_pos(st) == Ret([st EXCEPT !.pos = (st.pos + 1) % st.len])

\* rewind that stops at the first frame
dec_pos_clamped(st) == Ret([st EXCEPT !.pos = IF st.pos = 0 THEN 0 ELSE st.pos - 1])

\* rewind without the modulo
dec_pos_unwrapped(st) == Ret([st EXCEPT !.pos = st.pos - 1])

dec_pos(st) == Ret([st EXCEPT !.pos = (st.pos - 1) % st.len])

\* reset that also drops the current image
reset_pos_clears(st) == Ret([st EXCEPT !.pos = 0, !.I = Blank])

\* reset that forgets the assignment
reset_pos_skipped(st) == Ret(st)

reset_pos(st) == Ret([st EXCEPT !.pos = 0])

\* quit that rewinds to the first frame before exiting
quit_resets(st) == [st |-> [st EXCEPT !.pos = 0], exc |-> "SystemExit"]

\* quit that returns instead of exiting
quit_returns(st) == Ret(st)

quit(st) == [st |-> st, exc |-> "SystemExit"]

\* handlers a caller registers with @command or passes in `commands`
H1(st) == Ret([st EXCEPT !.pos = st.len - 1])
H2(st) == Ret([st EXCEPT !.pos = 0 - 1])
H3(st) == Ret([st EXCEPT !.pos = st.len])

DefaultHandlers == {"inc_pos", "dec_pos", "reset_pos", "quit"}
CustomHandlers == {"H1", "H2", "H3"}

Call(f, st) ==
    CASE f = "inc_pos" -> inc_pos(st)
      [] f = "dec_pos" -> dec_pos(st)
      [] f = "reset_pos" -> reset_pos(st)
      [] f = "quit" -> quit(st)
      [] f = "H1" -> H1(st)
      [] f = "H2" -> H2(st)
      [] f = "H3" -> H3(st)

\* the four @command decorations executed at import (glviewer.py:49-66)
ImportedCommands ==
    command(command(command(command(EmptyDict,
        Str(<<"j">>), "inc_pos"),
        Str(<<"k">>), "dec_pos"),
        Str(<<"0">>), "reset_pos"),
        Str(<<"q">>), "quit")

\* -------------------------------------------------------------------- inputs
ValidChars == { Str(<<"j">>), Str(<<"\n">>) }
InvalidChars == { Str(<<>>), Str(<<"j", "k">>), Unicode(<<"j">>), IntVal }
RegInputs ==
    {<<Str(<<"j">>), "H1">>, <<Str(<<"j">>), "H2">>, <<Str(<<"\n">>), "H1">>}
    \cup (InvalidChars \X {"H1"})

None == [isNone |-> TRUE, tbl |-> EmptyDict]
Dict(d) == [isNone |-> FALSE, tbl |-> d]
OnlyR == SetItem(EmptyDict, "r", "H1")
OverrideJ == SetItem(SetItem(EmptyDict, "j", "H2"), "k", "H3")
CommandsArgs == {None, Dict(OnlyR), Dict(OverrideJ)}

\* arrays_to_print: no array, or arrays parallel to the n frames
Labels(n) == [i \in 1..n |-> 10 + i]
Names(n) == [i \in 1..n |-> 20 + i]
AuxInputs(n) == { <<>>, <<Labels(n)>>, <<Labels(n), Names(n)>> }

\* ------------------------------------------------------------ toy datasets
\* two of the dataset classes of toy.py; each derives from BuildOnInit
\* directly
Classes == {"Iris", "Digits"}
AttrNames == {"meta", "descr", "meta_const"}

\* an attribute that is not set
Missing == <<0, "missing">>
NoAttrs == [a \in AttrNames |-> Missing]

\* the k-th call of build_all: three objects no earlier call returned
build_all(k) == [a \in AttrNames |-> <<k, a>>]

\* self.<a>: the attribute of the instance if it is set there, else that of
\* its class; BuildOnInit itself sets none. Missing stands for AttributeError
getattr(own, cattrs, a) == IF own[a] # Missing THEN own[a] ELSE cattrs[a]

\* the try block of __init__ passes
HasAll(own, cattrs) == \A a \in AttrNames : getattr(own, cattrs, a) # Missing

\* a construction that builds whatever the class holds
__init___always_builds(cattrs, k) == [own |-> build_all(k + 1), calls |-> 1]

\* BuildOnInit.__init__ on a new object of a class with attributes cattrs,
\* after k calls of build_all: the attributes set on the object and the
\* number of calls of build_all made
__init__(cattrs, k) ==
    IF HasAll(NoAttrs, cattrs)
    THEN [own |-> NoAttrs, calls |-> 0]
    ELSE [own |-> build_all(k + 1), calls |-> 1]

\* memoize that sets the attributes on the base class, where every dataset
\* class finds them
memoize_on_base(ca, cls, own) ==
    [c \in Classes |-> [a \in AttrNames |-> getattr(own, ca[cls], a)]]

\* memoize on an instance of cls with attributes own: the class attributes
\* afterwards
memoize(ca, cls, own) ==
    [ca EXCEPT ![cls] = [a \in AttrNames |-> getattr(own, ca[cls], a)]]

NoOp == [op |-> "none", cls |-> "none", calls |-> 0]

NoState == [window |-> 0, pos |-> 0, I |-> Blank, len |-> 0]
NoReg == [char |-> Str(<<>>), f |-> "none", ok |-> FALSE]

\* --------------------------------------------------------------------- Init
Init ==
    /\ _commands = ImportedCommands
    /\ commands = [ref |-> "unbound", tbl |-> EmptyDict]
    /\ state = NoState
    /\ loop = "NotStarted"
    /\ painted = Blank
    /\ lastSym = NoSym
    /\ invoked = "none"
    /\ drew = FALSE
    /\ raised = "none"
    /\ printed = "nothing"
    /\ lastReg = NoReg
    /\ clobbered = "none"
    /\ nregs = 0
    /\ img_array = <<>>
    /\ atStart = EmptyDict
    /\ regsAtStart = 0
    /\ commandsArg = None
    /\ scenario = 0
    /\ arrays_to_print = <<>>
    /\ shown = <<>>
    /\ classAttrs = [cls \in Classes |-> NoAttrs]
    /\ instances = <<>>
    /\ builds = 0
    /\ lastOp = NoOp
    /\ memoBy = [cls \in Classes |-> 0]
    /\ memoizedOn = {}

\* --------------------------------------------------------------- operations
\* command(char)(f): the decorator applied to f (glviewer.py:38-46)
Register(char, f) ==
    /\ loop \in {"NotStarted", "Running"}
    /\ nregs < MaxRegs
    /\ nregs' = nregs + 1
    /\ IF ValidChar(char)
         THEN /\ _commands' = command(_commands, char, f)
              /\ clobbered' = IF char.chars[1] \in DOMAIN _commands
                                THEN _commands[char.chars[1]] ELSE "absent"
              /\ lastReg' = [char |-> char, f |-> f, ok |-> TRUE]
         ELSE /\ _commands' = _commands
              /\ clobbered' = "none"
              /\ lastReg' = [char |-> char, f |-> f, ok |-> FALSE]
    /\ UNCHANGED <<sessionVars, keyVars, toyVars>>

\* d.update(e) on a copy of d
Merged(d, e) ==
    [c \in (DOMAIN d) \cup (DOMAIN e) |-> IF c \in DOMAIN e THEN e[c] ELSE d[c]]

\* a session that layers the caller's table over a copy of the defaults
Bind_merging(arg, global) ==
    IF arg.isNone THEN [ref |-> "_commands", tbl |-> EmptyDict]
                  ELSE [ref |-> "arg", tbl |-> Merged(global, arg.tbl)]

\* a session that copies the registry when it starts
Bind_copying(arg, global) ==
    IF arg.isNone THEN [ref |-> "copy", tbl |-> global]
                  ELSE [ref |-> "arg", tbl |-> arg.tbl]

\* `if commands is None: commands = _commands` (glviewer.py:99-100)
Bind(arg, global) ==
    IF arg.isNone THEN [ref |-> "_commands", tbl |-> EmptyDict]
                  ELSE [ref |-> "arg", tbl |-> arg.tbl]

\* the dict the session's name `commands` denotes now
Deref(cmds, global) == IF cmds.ref = "_commands" THEN global ELSE cmds.tbl

ActiveCommands == Deref(commands, _commands)

\* glumpy_viewer(img_array, arrays_to_print=aux, commands=arg) up to
\* window.mainloop()
\* (glviewer.py:86-100, 128)
StartSession(n, arg, aux) ==
    /\ loop = "NotStarted"
    /\ img_array' = Frames(n)
    /\ state' = [window |-> Window, pos |-> 0,
                 I |-> Image(getitem(Frames(n), 0)), len |-> Len(Frames(n))]
    /\ commands' = Bind(arg, _commands)
    /\ loop' = "Running"
    /\ atStart' = _commands
    /\ regsAtStart' = nregs
    /\ commandsArg' = arg
    /\ arrays_to_print' = aux
    /\ UNCHANGED <<regVars, keyVars, painted, toyVars>>

\* on_draw (glviewer.py:102-105): clear the window and blit state['I']
on_draw(st) == st.I

OnDraw ==
    /\ loop = "Running"
    /\ painted' = on_draw(state)
    /\ UNCHANGED <<regVars, keyVars, commands, state, loop, img_array,
                   atStart, regsAtStart, commandsArg, arrays_to_print, toyVars>>

\* on_key_press (glviewer.py:107-125): the state dict after the call, the
\* handler it called, whether it called window.draw(), what it printed, the
\* exception that left it, and the values of arrays_to_print it printed
Outcome(st, h, d, p, e, sh) ==
    [st |-> st, invoked |-> h, drew |-> d, printed |-> p, raised |-> e,
     shown |-> sh]

\* [o[state['pos']] for o in arrays_to_print] (glviewer.py:124)
Shown(aux, pos) == [k \in DOMAIN aux |-> getitem(aux[k], pos)]

\* a dispatch that redraws after every handler, without comparing positions
on_key_press_always_draws(symbol, cmds, st, arr, aux) ==
    IF ~InChrRange(symbol)
    THEN Outcome(st, "none", FALSE, "nothing", "ValueError", <<>>)
    ELSE IF chr(symbol) \notin DOMAIN cmds
    THEN Outcome(st, "none", FALSE, "unused key", "none", <<>>)
    ELSE LET pos == st.pos
             f == cmds[chr(symbol)]
             r == Call(f, st)
             new == [r.st EXCEPT !.I = Image(getitem(arr, r.st.pos))]
         IN  IF r.exc # "none"
             THEN Outcome(r.st, f, FALSE, "nothing", r.exc, <<>>)
             ELSE IF ~InIndexRange(arr, r.st.pos)
             THEN Outcome(r.st, f, FALSE, "nothing", "IndexError", <<>>)
             ELSE IF \E k \in DOMAIN aux : ~InIndexRange(aux[k], r.st.pos)
             THEN Outcome(new, f, FALSE, "nothing", "IndexError", <<>>)
             ELSE Outcome(new, f, TRUE, "pos", "none", Shown(aux, r.st.pos))

\* a dispatch that redraws without building a new image
on_key_press_keeps_image(symbol, cmds, st, arr, aux) ==
    IF ~InChrRange(symbol)
    THEN Outcome(st, "none", FALSE, "nothing", "ValueError", <<>>)
    ELSE IF chr(symbol) \notin DOMAIN cmds
    THEN Outcome(st, "none", FALSE, "unused key", "none", <<>>)
    ELSE LET pos == st.pos
             f == cmds[chr(symbol)]
             r == Call(f, st)
             new == r.st
         IN  IF r.exc # "none"
             THEN Outcome(r.st, f, FALSE, "nothing", r.exc, <<>>)
             ELSE IF pos = r.st.pos
             THEN Outcome(r.st, f, FALSE, "nothing", "none", <<>>)
             ELSE IF ~InIndexRange(arr, r.st.pos)
             THEN Outcome(r.st, f, FALSE, "nothing", "IndexError", <<>>)
             ELSE IF \E k \in DOMAIN aux : ~InIndexRange(aux[k], r.st.pos)
             THEN Outcome(new, f, FALSE, "nothing", "IndexError", <<>>)
             ELSE Outcome(new, f, TRUE, "pos", "none", Shown(aux, r.st.pos))

\* a dispatch that builds the image from the position before the handler ran
on_key_press_old_frame(symbol, cmds, st, arr, aux) ==
    IF ~InChrRange(symbol)
    THEN Outcome(st, "none", FALSE, "nothing", "ValueError", <<>>)
    ELSE IF chr(symbol) \notin DOMAIN cmds
    THEN Outcome(st, "none", FALSE, "unused key", "none", <<>>)
    ELSE LET pos == st.pos
             f == cmds[chr(symbol)]
             r == Call(f, st)
             new == [r.st EXCEPT !.I = Image(getitem(arr, pos))]
         IN  IF r.exc # "none"
             THEN Outcome(r.st, f, FALSE, "nothing", r.exc, <<>>)
             ELSE IF pos = r.st.pos
             THEN Outcome(r.st, f, FALSE, "nothing", "none", <<>>)
             ELSE IF ~InIndexRange(arr, r.st.pos)
             THEN Outcome(r.st, f, FALSE, "nothing", "IndexError", <<>>)
             ELSE IF \E k \in DOMAIN aux : ~InIndexRange(aux[k], r.st.pos)
             THEN Outcome(new, f, FALSE, "nothing", "IndexError", <<>>)
             ELSE Outcome(new, f, TRUE, "pos", "none", Shown(aux, r.st.pos))

\* a dispatch that calls window.draw() once per printed array, so not at all
\* when arrays_to_print is empty
on_key_press_draws_per_array(symbol, cmds, st, arr, aux) ==
    IF ~InChrRange(symbol)
    THEN Outcome(st, "none", FALSE, "nothing", "ValueError", <<>>)
    ELSE IF chr(symbol) \notin DOMAIN cmds
    THEN Outcome(st, "none", FALSE, "unused key", "none", <<>>)
    ELSE LET pos == st.pos
             f == cmds[chr(symbol)]
             r == Call(f, st)
             new == [r.st EXCEPT !.I = Image(getitem(arr, r.st.pos))]
         IN  IF r.exc # "none"
             THEN Outcome(r.st, f, FALSE, "nothing", r.exc, <<>>)
             ELSE IF pos = r.st.pos
             THEN Outcome(r.st, f, FALSE, "nothing", "none", <<>>)
             ELSE IF ~InIndexRange(arr, r.st.pos)
             THEN Outcome(r.st, f, FALSE, "nothing", "IndexError", <<>>)
             ELSE IF \E k \in DOMAIN aux : ~InIndexRange(aux[k], r.st.pos)
             THEN Outcome(new, f, FALSE, "nothing", "IndexError", <<>>)
             ELSE Outcome(new, f, aux # <<>>, "pos", "none", Shown(aux, r.st.pos))

on_key_press(symbol, cmds, st, arr, aux) ==
    IF ~InChrRange(symbol)
    THEN Outcome(st, "none", FALSE, "nothing", "ValueError", <<>>)
    ELSE IF chr(symbol) \notin DOMAIN cmds
    THEN Outcome(st, "none", FALSE, "unused key", "none", <<>>)
    ELSE LET pos == st.pos
             f == cmds[chr(symbol)]
             r == Call(f, st)
             new == [r.st EXCEPT !.I = Image(getitem(arr, r.st.pos))]
         IN  IF r.exc # "none"
             THEN Outcome(r.st, f, FALSE, "nothing", r.exc, <<>>)
             ELSE IF pos = r.st.pos
             THEN Outcome(r.st, f, FALSE, "nothing", "none", <<>>)
             ELSE IF ~InIndexRange(arr, r.st.pos)
             THEN Outcome(r.st, f, FALSE, "nothing", "IndexError", <<>>)
             ELSE IF \E k \in DOMAIN aux : ~InIndexRange(aux[k], r.st.pos)
             THEN Outcome(new, f, FALSE, "nothing", "IndexError", <<>>)
             ELSE Outcome(new, f, TRUE, "pos", "none", Shown(aux, r.st.pos))

\* what the host window does when a callback raises: SystemExit ends the
\* process; for any other exception the host either goes on or dies
HostAfter(exc) ==
    CASE exc = "none" -> {"Running"}
      [] exc = "SystemExit" -> {"Terminated"}
      [] OTHER -> {"Running", "Aborted"}

KeyPress(symbol) ==
    /\ loop = "Running"
    /\ LET o == on_key_press(symbol, ActiveCommands, state, img_array,
                             arrays_to_print)
       IN  /\ state' = o.st
           /\ invoked' = o.invoked
           /\ drew' = o.drew
           /\ printed' = o.printed
           /\ raised' = o.raised
           /\ shown' = o.shown
           /\ painted' = IF o.drew THEN on_draw(o.st) ELSE painted
           /\ loop' \in HostAfter(o.raised)
    /\ lastSym' = symbol
    /\ scenario' = Follow(scenario, symbol)
    /\ UNCHANGED <<regVars, commands, img_array, atStart, regsAtStart,
                   commandsArg, arrays_to_print, toyVars>>

Next ==
    \/ \E ri \in RegInputs : Register(ri[1], ri[2])
    \/ \E n \in 1..MaxLen, arg \in CommandsArgs : StartSession(n, arg, <<>>)
    \/ \E symbol \in KeySymbols : KeyPress(symbol)
    \/ OnDraw

Spec == Init /\ [][Next]_vars

\* cls(): a dataset object is constructed
Construct(cls) ==
    /\ Len(instances) < MaxObjs
    /\ LET r == __init__(classAttrs[cls], builds)
       IN  /\ instances' = Append(instances, [cls |-> cls, own |-> r.own])
           /\ builds' = builds + r.calls
           /\ lastOp' = [op |-> "construct", cls |-> cls, calls |-> r.calls]
    /\ UNCHANGED <<classAttrs, memoBy, memoizedOn, viewerVars>>

\* instances[i].memoize()
Memoize(i) ==
    /\ i \in DOMAIN instances
    /\ HasAll(instances[i].own, classAttrs[instances[i].cls])
    /\ classAttrs' = memoize(classAttrs, instances[i].cls, instances[i].own)
    /\ lastOp' = [op |-> "memoize", cls |-> instances[i].cls, calls |-> 0]
    /\ memoBy' = [memoBy EXCEPT ![instances[i].cls] = i]
    /\ memoizedOn' = memoizedOn \cup {i}
    /\ UNCHANGED <<instances, builds, viewerVars>>

\* dataset objects are constructed and memoized; no viewer runs
NextToy ==
    \/ \E cls \in Classes : Construct(cls)
    \/ \E i \in 1..MaxObjs : Memoize(i)

SpecToy == Init /\ [][NextToy]_vars

\* sessions on the default bindings only: nothing is registered after import
\* and glumpy_viewer is called with commands=None, and with no, one or two
\* arrays to print
NextDefault ==
    \/ \E n \in 1..MaxLenDefault : \E aux \in AuxInputs(n) :
          StartSession(n, None, aux)
    \/ \E symbol \in KeySymbols : KeyPress(symbol)
    \/ OnDraw

SpecDefault == Init /\ [][NextDefault]_vars

\* ------------------------------------------------------------------- claims
Started == loop # "NotStarted"
Lookup(d, c) == IF c \in DOMAIN d THEN d[c] ELSE "none"
\* the handler a key-press of `symbol` reaches in the active table, if any
Target(symbol) ==
    IF InChrRange(symbol) THEN Lookup(ActiveCommands, chr(symbol)) ELSE "none"

\* C1: on the default bindings the position of a started session is always
\* in 0..len-1, and the range is kept by wrapping: advance from len-1 gives
\* 0 and rewind from 0 gives len-1.
C1_PositionInRange ==
    [][ /\ (Started' => (0 <= state'.pos /\ state'.pos < state'.len))
        /\ (KeyPress(SymJ) /\ state.pos = state.len - 1 => state'.pos = 0)
        /\ (KeyPress(SymK) /\ state.pos = 0 => state'.pos = state.len - 1)
      ]_vars

C1_Witness ==
    /\ loop = "Running" /\ state.len = 3
    /\ lastSym = SymJ /\ invoked = "inc_pos" /\ drew /\ state.pos = 0

\* C2: in a session on the default registry started after all registrations,
\* a key-press of the trigger registered last reaches the handler of that
\* last registration, whatever was bound to the trigger before.
C2_LastRegistrationWins ==
    ( /\ Started /\ commandsArg.isNone /\ nregs = regsAtStart
      /\ lastReg.ok /\ lastSym # NoSym /\ InChrRange(lastSym)
      /\ chr(lastSym) = lastReg.char.chars[1] )
    => /\ invoked = lastReg.f
       /\ state.pos = Call(lastReg.f, state).st.pos

C2_Witness ==
    /\ Started /\ commandsArg.isNone /\ nregs = regsAtStart
    /\ lastReg = [char |-> Str(<<"j">>), f |-> "H2", ok |-> TRUE]
    /\ clobbered = "H1"
    /\ lastSym = SymJ /\ invoked = "H2" /\ state.pos = 0 - 1

\* C3: a key-press whose symbol has no trigger in the active command table
\* changes neither position nor payload, calls no handler, requests no
\* redraw and leaves the loop Running.
C3_UnmatchedKeyIgnored ==
    [][ \A symbol \in KeySymbols :
          (KeyPress(symbol) /\ Target(symbol) = "none")
          => /\ state' = state
             /\ invoked' = "none"
             /\ ~drew'
             /\ loop' = "Running"
      ]_vars

\* C4: dispatching quit moves the loop from Running to Terminated, and once
\* Terminated nothing changes any more.
C4_QuitTerminates ==
    [][ /\ \A symbol \in KeySymbols :
             (KeyPress(symbol) /\ Target(symbol) = "quit")
             => loop' = "Terminated"
        /\ (loop = "Terminated" => UNCHANGED vars)
      ]_vars

C4_Witness == loop = "Terminated" /\ invoked = "quit" /\ lastSym = SymQ

\* C5: dispatching reset sets the position to 0 from any prior position and
\* requests a redraw iff the prior position was not 0.
C5_ResetToZero ==
    [][ \A symbol \in KeySymbols :
          (KeyPress(symbol) /\ Target(symbol) = "reset_pos")
          => /\ state'.pos = 0
             /\ (drew' <=> state.pos # 0)
      ]_vars

C5_Witness ==
    /\ loop = "Running" /\ lastSym = Sym0 /\ invoked = "reset_pos"
    /\ drew /\ state.pos = 0

\* C6: on a frame source of length 1 the default bindings never move the
\* position off 0, never request a redraw and never recompute the payload.
C6_SingleFrameStill ==
    (Started /\ state.len = 1)
    => /\ state.pos = 0
       /\ ~drew
       /\ printed # "pos"
       /\ state.I = Image(getitem(img_array, 0))

C6_Witness ==
    /\ loop = "Running" /\ state.len = 1
    /\ lastSym = SymK /\ invoked = "dec_pos" /\ state.pos = 0

\* the position after pressing `first` and then `second` in state st
PosAfterTwo(first, second, st) ==
    on_key_press(second, ActiveCommands,
                 on_key_press(first, ActiveCommands, st, img_array,
                              arrays_to_print).st,
                 img_array, arrays_to_print).st.pos

\* C7: with at least two frames, advance then rewind, and rewind then
\* advance, bring the position back to where it was, from every position.
C7_AdvanceRewindInverse ==
    (loop = "Running" /\ state.len >= 2)
    => /\ PosAfterTwo(SymJ, SymK, state) = state.pos
       /\ PosAfterTwo(SymK, SymJ, state) = state.pos

C7_Witness ==
    /\ loop = "Running" /\ state.len = 3
    /\ lastSym = SymK /\ invoked = "dec_pos" /\ drew
    /\ state.pos = state.len - 1

DefaultSymbols == {SymJ, SymK, Sym0, SymQ}

TableAtStart == IF commandsArg.isNone THEN atStart ELSE commandsArg.tbl

\* C9 as stated: a running session sends every key-press to the handler
\* that was bound to the key when the session started.
C9_SessionKeepsStartBindings ==
    [][ \A symbol \in KeySymbols :
          (lastSym' = symbol /\ KeyPress(symbol) /\ InChrRange(symbol))
          => invoked' = Lookup(TableAtStart, chr(symbol))
      ]_vars

\* C9 amended: a session on the default registry sends every key-press to
\* the handler bound in the registry at the time of the key-press, so a
\* registration made while it runs takes effect in it at once; a session
\* started with its own table keeps the handlers of that table.
C9_RegistrationSeenAtOnce ==
    [][ \A symbol \in KeySymbols :
          (lastSym' = symbol /\ KeyPress(symbol) /\ InChrRange(symbol))
          => invoked' = Lookup(IF commandsArg.isNone THEN _commands
                                                     ELSE commandsArg.tbl,
                               chr(symbol))
      ]_vars

C9_Witness ==
    /\ Started /\ commandsArg.isNone
    /\ regsAtStart = 0 /\ nregs = 1
    /\ lastReg = [char |-> Str(<<"j">>), f |-> "H1", ok |-> TRUE]
    /\ lastSym = SymJ /\ invoked = "H1"

\* a trigger that is one printable character held in a str
OnePrintableChar(char) ==
    char.type = "str" /\ Len(char.chars) = 1 /\ IsPrintable(char.chars[1])

\* C10 as stated: a registration whose trigger is not exactly one printable
\* character fails and leaves the registry as it was.
C10_NonPrintableRejected ==
    [][ \A ri \in RegInputs :
          (Register(ri[1], ri[2]) /\ ~OnePrintableChar(ri[1]))
          => ~lastReg'.ok /\ _commands' = _commands
      ]_vars

\* C10 amended: a registration whose trigger is not a str of length one
\* fails and leaves the registry as it was; a str of length one is bound,
\* printable or not.
C10_OnlyOneCharStrAccepted ==
    [][ \A ri \in RegInputs :
          (nregs' = nregs + 1 /\ lastReg'.char = ri[1] /\ Register(ri[1], ri[2]))
          => IF ri[1] \in InvalidChars
             THEN ~lastReg'.ok /\ _commands' = _commands
             ELSE /\ lastReg'.ok
                  /\ Lookup(_commands', ri[1].chars[1]) = ri[2]
                  /\ \A c \in DOMAIN _commands :
                        c # ri[1].chars[1] => Lookup(_commands', c) = _commands[c]
      ]_vars

C10_Witness ==
    /\ nregs = 2 /\ ~lastReg.ok /\ lastReg.char = Unicode(<<"j">>)
    /\ Lookup(_commands, "\n") = "H1"
    /\ Lookup(_commands, "j") = "inc_pos"

C12_EndToEnd ==
    (Started /\ state.len = 5)
    => /\ (scenario = 0 => state.pos = 0 /\ loop = "Running")
       /\ (scenario = 3 => state.pos = 3 /\ loop = "Running")
       /\ (scenario = 5 => state.pos = 0 /\ loop = "Running")
       /\ (scenario = 6 => state.pos = 4 /\ loop = "Running")
       /\ (scenario = 7 => state.pos = 0 /\ loop = "Running")
       /\ (scenario = 8 => state.pos = 0 /\ loop = "Terminated")

C12_Witness ==
    /\ scenario = Len(Scenario) /\ state.len = 5
    /\ loop = "Terminated" /\ lastSym = SymQ /\ invoked = "quit"

\* C13: in every state of a Running session on the default bindings, the
\* first one included, the image held in the state dict is the image of the
\* frame at the current position.
C13_ImageMatchesPosition ==
    loop = "Running"
    => /\ InIndexRange(img_array, state.pos)
       /\ state.I = Image(getitem(img_array, state.pos))

C13_Witness ==
    /\ loop = "Running" /\ state.len = 4 /\ lastSym = SymR
    /\ invoked = "none" /\ printed = "unused key"
    /\ state.pos = 3 /\ state.I = Image(3)

\* C14: when a handler moves the position outside 0..len-1, the frame
\* access that follows raises IndexError and ends the session; no frame is
\* rendered for that position.
C14_OutOfRangeFailsFast ==
    [][ \A symbol \in KeySymbols :
          ( /\ lastSym' = symbol /\ KeyPress(symbol)
            /\ Target(symbol) # "none"
            /\ state'.pos # state.pos
            /\ ~(0 <= state'.pos /\ state'.pos < state.len) )
          => /\ raised' = "IndexError"
             /\ loop' = "Aborted"
             /\ ~drew'
             /\ state'.I = state.I
      ]_vars

\* C15: the key-press that dispatches quit leaves every field of the state
\* dict as it was, builds no image and requests no redraw, and nothing is
\* painted afterwards.
C15_QuitChangesNothing ==
    [][ /\ \A symbol \in KeySymbols :
             ( /\ lastSym' = symbol /\ KeyPress(symbol)
               /\ Target(symbol) = "quit" )
             => /\ state' = state
                /\ ~drew' /\ printed' = "nothing"
                /\ painted' = painted
        /\ (invoked = "quit" => state' = state /\ painted' = painted)
      ]_vars

C15_Witness ==
    /\ loop = "Terminated" /\ invoked = "quit" /\ ~drew
    /\ state.len = 3 /\ state.pos = 2 /\ state.I = Image(2)
    /\ state.window = Window /\ painted = Image(2)

\* C16: on the default bindings only the key-press that dispatches quit
\* takes the loop out of Running: after an advance, a rewind, a reset or an
\* unmatched key the loop is Running.
C16_OnlyQuitLeavesRunning ==
    [][ \A symbol \in KeySymbols :
          ( /\ lastSym' = symbol /\ KeyPress(symbol)
            /\ Target(symbol) # "quit" )
          => loop' = "Running"
      ]_vars

\* C17: once the session has started, len and window (and the frame source)
\* never change; a default handler writes only pos, the dispatch around it
\* writes only I, and the draw callback writes nothing in the state dict.
C17_FrameOfSession ==
    [][ /\ (Started => /\ state'.len = state.len
                       /\ state'.window = state.window
                       /\ img_array' = img_array)
        /\ \A symbol \in KeySymbols :
             ( /\ lastSym' = symbol /\ KeyPress(symbol)
               /\ Target(symbol) \in DefaultHandlers )
             => LET h == Call(Target(symbol), state).st
                IN  /\ h = [state EXCEPT !.pos = h.pos]
                    /\ state' = [h EXCEPT !.I = state'.I]
        /\ (OnDraw => state' = state)
      ]_vars

C17_Witness ==
    /\ loop = "Running" /\ state.len = 2 /\ state.window = Window
    /\ lastSym = Sym0 /\ invoked = "reset_pos" /\ drew
    /\ state.pos = 0 /\ painted = Image(0)

\* the part of a key-press outcome the claim speaks of
Observable(o) ==
    [st |-> o.st, invoked |-> o.invoked, drew |-> o.drew, raised |-> o.raised,
     loop |-> HostAfter(o.raised)]

\* C18: the arrays to print do not steer the session: the state a session
\* starts in is the same whatever arrays it is given and, from every state
\* of a session, every key-press has the same effect on position, image,
\* redraw request and loop status with any other parallel arrays, or none,
\* in their place. Two sessions on the same frames and keys therefore pass
\* through the same positions, images, redraws and statuses.
C18_AuxArraysObservational ==
    [][ /\ (~Started /\ Started')
           => /\ state' = [window |-> Window, pos |-> 0,
                           I |-> Image(getitem(img_array', 0)),
                           len |-> Len(img_array')]
              /\ loop' = "Running"
        /\ (loop' = "Running")
           => \A symbol \in KeySymbols, aux \in AuxInputs(state'.len) :
                Observable(on_key_press(symbol, ActiveCommands', state',
                                        img_array', arrays_to_print'))
                = Observable(on_key_press(symbol, ActiveCommands', state',
                                          img_array', aux))
      ]_vars

C18_Witness ==
    /\ loop = "Running" /\ state.len = 3
    /\ arrays_to_print = <<Labels(3), Names(3)>>
    /\ lastSym = SymJ /\ invoked = "inc_pos" /\ drew
    /\ state.pos = 2 /\ shown = <<13, 23>>

\* the state dict after the key symbols of `keys` are pressed in order in
\* the session, starting from the state dict st
RECURSIVE AfterKeys(_, _)
AfterKeys(keys, st) ==
    IF keys = <<>>
    THEN st
    ELSE AfterKeys(Tail(keys),
                   on_key_press(Head(keys), ActiveCommands, st, img_array,
                                arrays_to_print).st)

RECURSIVE AllReturn(_, _)
AllReturn(keys, st) ==
    \/ keys = <<>>
    \/ LET o == on_key_press(Head(keys), ActiveCommands, st, img_array,
                             arrays_to_print)
       IN  o.raised = "none" /\ AllReturn(Tail(keys), o.st)

Count(keys, symbol) == Cardinality({ i \in DOMAIN keys : keys[i] = symbol })

AdvanceRewindRuns ==
    UNION { [1..k -> {SymJ, SymK}] : k \in 0..MaxPresses }

\* C19: in a session on the default bindings, from every position the
\* session can be at (position 0, where it starts, included), any run of
\* advance and rewind key-presses with a advances and r rewinds, in any
\* order, returns normally and leaves the position at the starting position
\* plus a - r, modulo the number of frames; so from position 0 it is
\* (a - r) mod len, and len advances in a row, or len rewinds in a row, come
\* back to where they started.
C19_NetDisplacement ==
    (loop = "Running")
    => \A keys \in AdvanceRewindRuns :
         /\ AllReturn(keys, state)
         /\ AfterKeys(keys, state).pos
            = (state.pos + Count(keys, SymJ) - Count(keys, SymK)) % state.len
         /\ (state.pos = 0)
            => AfterKeys(keys, state).pos
               = (Count(keys, SymJ) - Count(keys, SymK)) % state.len

\* five advances in a row from the start of a five-frame session, pressed
\* one by one, are back at position 0
C19_Witness ==
    /\ loop = "Running" /\ state.len = 5 /\ scenario = 5
    /\ state.pos = 0 /\ lastSym = SymJ /\ invoked = "inc_pos" /\ drew

\* what the i-th dataset object sees as its meta, descr and meta_const
Sees(insts, ca, i) ==
    [a \in AttrNames |-> getattr(insts[i].own, ca[insts[i].cls], a)]

\* C20: a construction calls build_all once, and the new object then holds
\* three objects nothing else holds, unless meta, descr and meta_const are
\* set on its class, and they are set exactly when memoize() was called on
\* an instance of that class; a construction of a class memoize() was
\* called for calls build_all zero times and the new object sees the very
\* same three objects as the instance memoize() was last called on, which
\* are the objects set on the class.
C20_MemoizedPerClass ==
    [][ \A cls \in Classes :
          ( /\ Construct(cls)
            /\ lastOp'.op = "construct" /\ lastOp'.cls = cls
            /\ Len(instances') = Len(instances) + 1 )
          => LET new == Len(instances') IN
             /\ HasAll(NoAttrs, classAttrs[cls]) <=> memoBy[cls] # 0
             /\ (memoBy[cls] = 0)
                => /\ lastOp'.calls = 1 /\ builds' = builds + 1
                   /\ \A i \in 1..Len(instances), a \in AttrNames :
                        /\ Sees(instances', classAttrs', new)[a] # Missing
                        /\ Sees(instances', classAttrs', new)[a]
                           # Sees(instances', classAttrs', i)[a]
             /\ (memoBy[cls] # 0)
                => /\ lastOp'.calls = 0 /\ builds' = builds
                   /\ Sees(instances', classAttrs', new)
                      = Sees(instances', classAttrs', memoBy[cls])
                   /\ Sees(instances', classAttrs', new) = classAttrs[cls]
                   /\ \A a \in AttrNames : classAttrs[cls][a] # Missing
      ]_vars

\* C20 as stated: a construction of a class sees the very same objects as
\* every instance of the class memoize() was called on before.
C20_SameAsEveryMemoized ==
    [][ \A cls \in Classes :
          ( /\ Construct(cls)
            /\ lastOp'.op = "construct" /\ lastOp'.cls = cls
            /\ Len(instances') = Len(instances) + 1 )
          => /\ (memoBy[cls] = 0) => lastOp'.calls = 1
             /\ \A i \in memoizedOn :
                  (instances[i].cls = cls)
                  => /\ lastOp'.calls = 0
                     /\ Sees(instances', classAttrs', Len(instances'))
                        = Sees(instances', classAttrs', i)
      ]_vars

\* an Iris was built and memoized, a second Iris was constructed without a
\* build and sees the first one's objects, and a Digits still built its own
C20_Witness ==
    /\ Len(instances) = 3
    /\ instances[1].cls = "Iris" /\ instances[2].cls = "Iris"
    /\ instances[3].cls = "Digits"
    /\ memoBy["Iris"] = 1 /\ memoBy["Digits"] = 0
    /\ instances[2].own = NoAttrs
    /\ Sees(instances, classAttrs, 2) = build_all(1)
    /\ Sees(instances, classAttrs, 3) = build_all(2)
    /\ builds = 2
    /\ lastOp = [op |-> "construct", cls |-> "Digits", calls |-> 1]

====
